---------------------------- MODULE Spec2Model ----------------------------
(***************************************************************************)
(* Model of src/von_koch.py: the Koch-snowflake viewer VonKochApp.         *)
(*                                                                         *)
(* Numbers.  The program computes with floats.  Here                       *)
(*   - zoom is counted in units of 1/ZoomScale (tenths); a product or      *)
(*     quotient that is no whole number of units is rounded away from the  *)
(*     zoom it started from, so a step that moves the float moves the      *)
(*     model's zoom too and never by less;                                 *)
(*   - a coordinate is a pair <<a, b>> standing for (a + b*sqrt(3))/Unite. *)
(*     Every point the program computes from integer pans, TAILLE_FLOCON   *)
(*     and a zoom in tenths is exactly of this form down to depth 7, so    *)
(*     the geometry is computed without rounding.                          *)
(* The rotation of lines 145-146,                                          *)
(*   distance/3 * cos(angle + pi/3), distance/3 * sin(angle + pi/3),       *)
(* is computed by its algebraic value (dx - sqrt(3)*dy)/6 and              *)
(* (sqrt(3)*dx + dy)/6.                                                    *)
(*                                                                         *)
(* Three specifications:                                                   *)
(*   Spec        the application: __init__, then the event loop handing    *)
(*               events to the handlers, up to MaxEvenements of them.  The *)
(*               handlers are taken in any order, whatever the platform    *)
(*               that binds them (lines 77-83);                            *)
(*   SpecDessin  dessiner_flocon on a view drawn from bounded sets, the    *)
(*               polygon expanded into its coordinate list;                *)
(*   SpecKoch    one call of calculer_points_koch on arguments drawn from  *)
(*               bounded sets, followed frame by frame.                    *)
(***************************************************************************)
EXTENDS Integers, Sequences, FiniteSets, TLC

VARIABLES
    zoom,          \* self.zoom, in units of 1/ZoomScale
    pan_x, pan_y,  \* self.pan_x, self.pan_y (pixels)
    dragging,      \* self.dragging
    last_x, last_y,\* self.last_x, self.last_y
    niveau,        \* self.niveau
    canvas,        \* the polygon item on self.canvas, see dessiner_flocon
    info_zoom,     \* text of the label info_zoom: the zoom in hundredths
    info_niveau,   \* text of the label info_niveau: the level shown
    appui,         \* history: position and pan at the last button press
    dernier,       \* history: the last event handled, see Trace
    nb_evenements, \* number of events handled so far
    polygone,      \* the coordinate list create_polygon received, once expanded
    appel,         \* arguments of a call of calculer_points_koch
    pile,          \* its call stack, innermost frame last
    retour,        \* the list a frame has just returned, <<>> when none
    erreur         \* "" or the exception that ended the call

app == <<zoom, pan_x, pan_y, dragging, last_x, last_y, niveau, canvas,
         info_zoom, info_niveau, appui, dernier>>
koch == <<appel, pile, retour, erreur>>
vars == <<app, nb_evenements, polygone, koch>>

----------------------------------------------------------------------------
(* Program constants *)

TAILLE_FLOCON == 600
NIVEAU_RECURSION == 4
canvas_width == 1000
canvas_height == 800
NIVEAU_MIN == 0
NIVEAU_MAX == 7

\* zoom is kept in tenths: 0.1 is one unit
ZoomScale == 10
ZOOM_INITIAL == 1 * ZoomScale
ZOOM_MIN == ZoomScale \div 10
ZOOM_MAX == 50 * ZoomScale

\* common denominator of the coordinates
Unite == ZoomScale * 729

----------------------------------------------------------------------------
(* Bounds of the exploration *)

\* events handled in a run of Spec
MaxEvenements == 6
\* largest pan of the views of SpecDessin
MaxPan == 1
\* largest delta given to changer_niveau
MaxDelta == 2
\* largest niveau (and, negated, smallest) given to calculer_points_koch
MaxNiveauAppel == 3
\* frames the interpreter allows on the stack (its recursion limit); a call
\* with niveau >= 0 needs niveau + 1 of them
MaxPile == 6

\* pointer positions (event.x, event.y); the pointer may leave the window
Positions == {<<0, 0>>, <<3, -2>>, <<-1, 5>>}
DeltasNiveau == (0 - MaxDelta)..MaxDelta
\* wheel deltas (event.delta)
DeltasMolette == {-60000, -120, 120, 60000}

----------------------------------------------------------------------------
(* Arithmetic *)

Max(a, b) == IF a >= b THEN a ELSE b
Min(a, b) == IF a <= b THEN a ELSE b

\* n/d (d > 0) as a whole number, rounded away from z
Arrondi(n, d, z) ==
    IF n >= z * d THEN 0 - ((0 - n) \div d) ELSE n \div d

\* coordinates: <<a, b>> is (a + b*sqrt(3))/Unite
Entier(n) == <<n * Unite, 0>>
Plus(u, v) == <<u[1] + v[1], u[2] + v[2]>>
Moins(u, v) == <<u[1] - v[1], u[2] - v[2]>>
Fois(k, u) == <<k * u[1], k * u[2]>>
Sur(u, k) == <<u[1] \div k, u[2] \div k>>
FoisRacine3(u) == <<3 * u[2], u[1]>>

ButLast(s) == SubSeq(s, 1, Len(s) - 1)


----------------------------------------------------------------------------
(* calculer_points_koch, lines 115-157: the points of the Koch motif on    *)
(* the segment (x1, y1) -> (x2, y2); a point is <<x, y>>.                  *)

\* lines 132-133
vecteur(x1, y1, x2, y2) == <<Moins(x2, x1), Moins(y2, y1)>>

\* lines 138-139: one third of the way
point_p1(x1, y1, x2, y2) ==
    LET d == vecteur(x1, y1, x2, y2)
    IN  <<Plus(x1, Sur(d[1], 3)), Plus(y1, Sur(d[2], 3))>>

\* lines 141-142: two thirds of the way
point_p3(x1, y1, x2, y2) ==
    LET d == vecteur(x1, y1, x2, y2)
    IN  <<Plus(x1, Sur(Fois(2, d[1]), 3)), Plus(y1, Sur(Fois(2, d[2]), 3))>>

\* lines 134-135 and 145-146: the tip, p1 plus a third of the vector turned
\* by angle + pi/3
point_p2(x1, y1, x2, y2) ==
    LET d  == vecteur(x1, y1, x2, y2)
        p1 == point_p1(x1, y1, x2, y2)
    IN  <<Plus(p1[1], Sur(Moins(d[1], FoisRacine3(d[2])), 6)),
          Plus(p1[2], Sur(Plus(FoisRacine3(d[1]), d[2]), 6))>>

\* mutants of combiner: the sub-curves joined whole; the second and third
\* sub-curves exchanged
combiner_sans_coupe(segment1, segment2, segment3, segment4) ==
    segment1 \o segment2 \o segment3 \o segment4

combiner_desordre(segment1, segment2, segment3, segment4) ==
    ButLast(segment1) \o ButLast(segment3) \o ButLast(segment2) \o segment4

\* line 155
combiner(segment1, segment2, segment3, segment4) ==
    ButLast(segment1) \o ButLast(segment2) \o ButLast(segment3) \o segment4

RECURSIVE calculer_points_koch(_, _, _, _, _)
calculer_points_koch(x1, y1, x2, y2, n) ==
    IF n = 0
    THEN << <<x1, y1>>, <<x2, y2>> >>
    ELSE LET p1 == point_p1(x1, y1, x2, y2)
             p2 == point_p2(x1, y1, x2, y2)
             p3 == point_p3(x1, y1, x2, y2)
         IN  combiner(calculer_points_koch(x1, y1, p1[1], p1[2], n - 1),
                      calculer_points_koch(p1[1], p1[2], p2[1], p2[2], n - 1),
                      calculer_points_koch(p2[1], p2[2], p3[1], p3[2], n - 1),
                      calculer_points_koch(p3[1], p3[2], x2, y2, n - 1))

----------------------------------------------------------------------------
(* dessiner_flocon, lines 159-200 *)

\* mutant of sommets: the two base vertices exchanged
sommets_base_inversee(z, px, py) ==
    LET taille   == <<TAILLE_FLOCON * z * (Unite \div ZoomScale), 0>>
        centre_x == Plus(Sur(Entier(canvas_width), 2), Entier(px))
        centre_y == Plus(Sur(Entier(canvas_height), 2), Entier(py))
        hauteur  == Sur(FoisRacine3(taille), 2)
    IN  << <<centre_x, Moins(centre_y, Sur(hauteur, 2))>>,
           <<Plus(centre_x, Sur(taille, 2)), Plus(centre_y, Sur(hauteur, 2))>>,
           <<Moins(centre_x, Sur(taille, 2)), Plus(centre_y, Sur(hauteur, 2))>> >>

\* lines 163-180: the three vertices <<x1, y1>>, <<x2, y2>>, <<x3, y3>>
sommets(z, px, py) ==
    LET taille   == <<TAILLE_FLOCON * z * (Unite \div ZoomScale), 0>>
        centre_x == Plus(Sur(Entier(canvas_width), 2), Entier(px))
        centre_y == Plus(Sur(Entier(canvas_height), 2), Entier(py))
        hauteur  == Sur(FoisRacine3(taille), 2)
    IN  << <<centre_x, Moins(centre_y, Sur(hauteur, 2))>>,
           <<Moins(centre_x, Sur(taille, 2)), Plus(centre_y, Sur(hauteur, 2))>>,
           <<Plus(centre_x, Sur(taille, 2)), Plus(centre_y, Sur(hauteur, 2))>> >>

\* mutant of tous_points: the third side keeps its last point
tous_points_ferme(s, n) ==
    LET points_cote1 == calculer_points_koch(s[1][1], s[1][2], s[2][1], s[2][2], n)
        points_cote2 == calculer_points_koch(s[2][1], s[2][2], s[3][1], s[3][2], n)
        points_cote3 == calculer_points_koch(s[3][1], s[3][2], s[1][1], s[1][2], n)
    IN  ButLast(points_cote1) \o ButLast(points_cote2) \o points_cote3

\* lines 183-191: the three sides, each without its last point
tous_points(s, n) ==
    LET points_cote1 == calculer_points_koch(s[1][1], s[1][2], s[2][1], s[2][2], n)
        points_cote2 == calculer_points_koch(s[2][1], s[2][2], s[3][1], s[3][2], n)
        points_cote3 == calculer_points_koch(s[3][1], s[3][2], s[1][1], s[1][2], n)
    IN  ButLast(points_cote1) \o ButLast(points_cote2) \o ButLast(points_cote3)

\* line 194: [coord for point in tous_points for coord in point]
points_plats(pts) ==
    [i \in 1..(2 * Len(pts)) |-> pts[(i + 1) \div 2][2 - (i % 2)]]

\* line 200: the zoom with two decimals, kept in hundredths
texte_zoom(z) == (z * 100) \div ZoomScale

\* lines 161-197: the canvas is emptied and one polygon item is created.
\* The item is kept as the triangle and the level it is generated from;
\* create_polygon expands it into the coordinate list the canvas receives.
dessiner_flocon(z, px, py, n) == [triangle |-> sommets(z, px, py), niveau |-> n]

create_polygon(item) == points_plats(tous_points(item.triangle, item.niveau))

----------------------------------------------------------------------------
(* The application: __init__ and the event handlers, lines 30-113 and      *)
(* 202-281.  Each handler is one action, its redraw included.              *)

\* what every redraw leaves on screen (lines 161-200)
Redessiner ==
    /\ canvas' = dessiner_flocon(zoom', pan_x', pan_y', niveau')
    /\ info_zoom' = texte_zoom(zoom')

\* history of the last event: the handler, its argument, and the value the
\* field it assigns held before it was bounded (self.zoom after line 233,
\* 240, 246, 252 or 266, self.niveau after line 278; 0 for the others)
Trace(nom, arg, brut) == dernier' = [nom |-> nom, arg |-> arg, brut |-> brut]

\* lines 46-54, 63, 89, 102
InitApp ==
    /\ zoom = ZOOM_INITIAL
    /\ pan_x = 0
    /\ pan_y = 0
    /\ dragging = FALSE
    /\ last_x = 0
    /\ last_y = 0
    /\ niveau = NIVEAU_RECURSION
    /\ canvas = dessiner_flocon(ZOOM_INITIAL, 0, 0, NIVEAU_RECURSION)
    /\ info_zoom = texte_zoom(ZOOM_INITIAL)
    /\ info_niveau = NIVEAU_RECURSION
    /\ appui = [x |-> 0, y |-> 0, pan_x |-> 0, pan_y |-> 0]
    /\ dernier = [nom |-> "__init__", arg |-> <<>>, brut |-> 0]

\* lines 202-206
commencer_deplacement(x, y) ==
    /\ dragging' = TRUE
    /\ last_x' = x
    /\ last_y' = y
    /\ appui' = [x |-> x, y |-> y, pan_x |-> pan_x, pan_y |-> pan_y]
    /\ Trace("commencer_deplacement", <<x, y>>, 0)
    /\ UNCHANGED <<zoom, pan_x, pan_y, niveau, canvas, info_zoom, info_niveau>>

\* mutant of deplacer: the current position is not memorised
deplacer_sans_memoire(x, y) ==
    IF dragging
    THEN /\ pan_x' = pan_x + (x - last_x)
         /\ pan_y' = pan_y + (y - last_y)
         /\ UNCHANGED <<zoom, dragging, last_x, last_y, niveau, info_niveau, appui>>
         /\ Redessiner
         /\ Trace("deplacer", <<x, y>>, 0)
    ELSE /\ UNCHANGED <<zoom, pan_x, pan_y, dragging, last_x, last_y, niveau,
                        canvas, info_zoom, info_niveau, appui>>
         /\ Trace("deplacer", <<x, y>>, 0)

\* lines 208-224
deplacer(x, y) ==
    IF dragging
    THEN LET dx == x - last_x
             dy == y - last_y
         IN  /\ pan_x' = pan_x + dx
             /\ pan_y' = pan_y + dy
             /\ last_x' = x
             /\ last_y' = y
             /\ UNCHANGED <<zoom, dragging, niveau, info_niveau, appui>>
             /\ Redessiner
             /\ Trace("deplacer", <<x, y>>, 0)
    ELSE /\ UNCHANGED <<zoom, pan_x, pan_y, dragging, last_x, last_y, niveau,
                        canvas, info_zoom, info_niveau, appui>>
         /\ Trace("deplacer", <<x, y>>, 0)

\* lines 226-228
arreter_deplacement ==
    /\ dragging' = FALSE
    /\ Trace("arreter_deplacement", <<>>, 0)
    /\ UNCHANGED <<zoom, pan_x, pan_y, last_x, last_y, niveau, canvas,
                   info_zoom, info_niveau, appui>>

\* mutant of borner_zoom: the lower bound forgotten
borner_zoom_sans_min(z) == Min(ZOOM_MAX, z)

\* lines 234, 241, 268: max(0.1, min(50.0, self.zoom))
borner_zoom(z) == Max(ZOOM_MIN, Min(ZOOM_MAX, z))

\* lines 232-233: self.zoom * (1.0 + delta/1200.0)
produit_windows(z, delta) == Arrondi(z * (1200 + delta), 1200, z)

\* lines 239-240: self.zoom * (1.0 + delta/120.0)
produit_macos(z, delta) == Arrondi(z * (120 + delta), 120, z)

\* lines 246 and 252: self.zoom * 1.1, self.zoom / 1.1
produit_in_linux(z) == Arrondi(z * 11, 10, z)
quotient_out_linux(z) == Arrondi(z * 10, 11, z)

\* lines 263-266: self.zoom * 1.2 or self.zoom / 1.2
produit_clavier(z, zoom_in) ==
    IF zoom_in THEN Arrondi(z * 12, 10, z) ELSE Arrondi(z * 10, 12, z)

\* what the zoom handlers leave alone
CadreZoom ==
    UNCHANGED <<pan_x, pan_y, dragging, last_x, last_y, niveau, info_niveau, appui>>

\* lines 230-235
zoomer_windows(delta) ==
    /\ zoom' = borner_zoom(produit_windows(zoom, delta))
    /\ Trace("zoomer_windows", <<delta>>, produit_windows(zoom, delta))
    /\ CadreZoom
    /\ Redessiner

\* lines 237-242
zoomer_macos(delta) ==
    /\ zoom' = borner_zoom(produit_macos(zoom, delta))
    /\ Trace("zoomer_macos", <<delta>>, produit_macos(zoom, delta))
    /\ CadreZoom
    /\ Redessiner

\* lines 244-248
zoomer_in_linux ==
    /\ zoom' = Min(ZOOM_MAX, produit_in_linux(zoom))
    /\ Trace("zoomer_in_linux", <<>>, produit_in_linux(zoom))
    /\ CadreZoom
    /\ Redessiner

\* lines 250-254
zoomer_out_linux ==
    /\ zoom' = Max(ZOOM_MIN, quotient_out_linux(zoom))
    /\ Trace("zoomer_out_linux", <<>>, quotient_out_linux(zoom))
    /\ CadreZoom
    /\ Redessiner

\* lines 256-269
zoomer_clavier(zoom_in) ==
    /\ zoom' = borner_zoom(produit_clavier(zoom, zoom_in))
    /\ Trace("zoomer_clavier", <<zoom_in>>, produit_clavier(zoom, zoom_in))
    /\ CadreZoom
    /\ Redessiner

\* mutant of borner_niveau: the upper bound forgotten
borner_niveau_sans_max(n) == Max(NIVEAU_MIN, n)

\* line 279: max(0, min(7, self.niveau))
borner_niveau(n) == Max(NIVEAU_MIN, Min(NIVEAU_MAX, n))

\* mutant of changer_niveau: the redraw forgotten
changer_niveau_sans_dessin(delta) ==
    /\ niveau' = borner_niveau(niveau + delta)
    /\ Trace("changer_niveau", <<delta>>, niveau + delta)
    /\ info_niveau' = niveau'
    /\ UNCHANGED <<zoom, pan_x, pan_y, dragging, last_x, last_y, appui,
                   canvas, info_zoom>>

\* lines 271-281
changer_niveau(delta) ==
    /\ niveau' = borner_niveau(niveau + delta)
    /\ Trace("changer_niveau", <<delta>>, niveau + delta)
    /\ info_niveau' = niveau'
    /\ UNCHANGED <<zoom, pan_x, pan_y, dragging, last_x, last_y, appui>>
    /\ Redessiner

\* no call of calculer_points_koch is being followed
KochAuRepos ==
    /\ appel = [x1 |-> 0, y1 |-> 0, x2 |-> 0, y2 |-> 0, niveau |-> 0]
    /\ pile = <<>>
    /\ retour = <<>>
    /\ erreur = ""

\* the event loop hands one event to its handler
Evenement ==
    /\ nb_evenements < MaxEvenements
    /\ nb_evenements' = nb_evenements + 1
    /\ UNCHANGED <<polygone, koch>>

Next ==
    \/ \E p \in Positions : Evenement /\ commencer_deplacement(p[1], p[2])
    \/ \E p \in Positions : Evenement /\ deplacer(p[1], p[2])
    \/ Evenement /\ arreter_deplacement
    \/ \E delta \in DeltasMolette : Evenement /\ zoomer_windows(delta)
    \/ \E delta \in DeltasMolette : Evenement /\ zoomer_macos(delta)
    \/ Evenement /\ zoomer_in_linux
    \/ Evenement /\ zoomer_out_linux
    \/ \E zoom_in \in BOOLEAN : Evenement /\ zoomer_clavier(zoom_in)
    \/ \E delta \in DeltasNiveau : Evenement /\ changer_niveau(delta)

Init ==
    /\ InitApp
    /\ nb_evenements = 0
    /\ polygone = <<>>
    /\ KochAuRepos

Spec == Init /\ [][Next]_vars

----------------------------------------------------------------------------
(* dessiner_flocon as a function of the view: any view the handlers can    *)
(* leave, redrawn, and the polygon item expanded.                          *)

ZoomsDessin == {ZOOM_MIN, ZOOM_INITIAL, ZOOM_MAX}
PansDessin == (0 - MaxPan)..MaxPan

InitDessin ==
    /\ zoom \in ZoomsDessin
    /\ pan_x \in PansDessin
    /\ pan_y \in PansDessin
    /\ niveau \in NIVEAU_MIN..NIVEAU_MAX
    /\ dragging = FALSE
    /\ last_x = 0
    /\ last_y = 0
    /\ canvas = dessiner_flocon(zoom, pan_x, pan_y, niveau)
    /\ info_zoom = texte_zoom(zoom)
    /\ info_niveau = niveau
    /\ appui = [x |-> 0, y |-> 0, pan_x |-> pan_x, pan_y |-> pan_y]
    /\ dernier = [nom |-> "__init__", arg |-> <<>>, brut |-> 0]
    /\ nb_evenements = 0
    /\ polygone = <<>>
    /\ KochAuRepos

Dessiner ==
    /\ polygone = <<>>
    /\ UNCHANGED <<zoom, pan_x, pan_y, dragging, last_x, last_y, niveau,
                   info_niveau, appui, dernier>>
    /\ Redessiner
    /\ polygone' = create_polygon(canvas')
    /\ UNCHANGED <<nb_evenements, koch>>

NextDessin == Dessiner

SpecDessin == InitDessin /\ [][NextDessin]_vars

----------------------------------------------------------------------------
(* One call of calculer_points_koch followed frame by frame (lines         *)
(* 128-157).  A frame holds its arguments and the segments its recursive   *)
(* calls have returned so far (segment1..segment4, lines 149-152).         *)

Cadre(x1, y1, x2, y2, n) ==
    [x1 |-> x1, y1 |-> y1, x2 |-> x2, y2 |-> y2, niveau |-> n, segments |-> <<>>]

Sommet == pile[Len(pile)]

Depiler == SubSeq(pile, 1, Len(pile) - 1)

\* start, p1, p2, p3, end of a frame: the k-th recursive call runs from the
\* k-th to the (k+1)-th of them
jalons(c) ==
    << <<c.x1, c.y1>>,
       point_p1(c.x1, c.y1, c.x2, c.y2),
       point_p2(c.x1, c.y1, c.x2, c.y2),
       point_p3(c.x1, c.y1, c.x2, c.y2),
       <<c.x2, c.y2>> >>

\* the arguments the program may be called with
CoordsAppel == {Entier(n) : n \in 0..1}
NiveauxAppel == (0 - MaxNiveauAppel)..MaxNiveauAppel

InitKoch ==
    /\ appel \in [x1 : CoordsAppel, y1 : CoordsAppel, x2 : CoordsAppel,
                  y2 : CoordsAppel, niveau : NiveauxAppel]
    /\ pile = <<Cadre(appel.x1, appel.y1, appel.x2, appel.y2, appel.niveau)>>
    /\ retour = <<>>
    /\ erreur = ""
    /\ InitApp
    /\ nb_evenements = 0
    /\ polygone = <<>>

\* following a call touches nothing of the application
HorsAppel == UNCHANGED <<app, nb_evenements, polygone>>

\* lines 128-129
CasDeBase ==
    /\ pile # <<>>
    /\ retour = <<>>
    /\ Sommet.niveau = 0
    /\ retour' = << <<Sommet.x1, Sommet.y1>>, <<Sommet.x2, Sommet.y2>> >>
    /\ pile' = Depiler
    /\ UNCHANGED <<appel, erreur>>
    /\ HorsAppel

\* lines 131-152: the next recursive call is entered
Subdiviser ==
    /\ pile # <<>>
    /\ retour = <<>>
    /\ Sommet.niveau # 0
    /\ Len(Sommet.segments) < 4
    /\ Len(pile) < MaxPile
    /\ LET k == Len(Sommet.segments) + 1
           j == jalons(Sommet)
       IN  pile' = Append(pile, Cadre(j[k][1], j[k][2], j[k + 1][1], j[k + 1][2],
                                      Sommet.niveau - 1))
    /\ UNCHANGED <<appel, retour, erreur>>
    /\ HorsAppel

\* the interpreter refuses a deeper stack: RecursionError unwinds the call
DebordementPile ==
    /\ pile # <<>>
    /\ retour = <<>>
    /\ Sommet.niveau # 0
    /\ Len(Sommet.segments) < 4
    /\ Len(pile) = MaxPile
    /\ erreur' = "RecursionError"
    /\ pile' = <<>>
    /\ UNCHANGED <<appel, retour>>
    /\ HorsAppel

\* lines 149-152: a recursive call returns into segment1..segment4
RecevoirSegment ==
    /\ pile # <<>>
    /\ retour # <<>>
    /\ pile' = [pile EXCEPT ![Len(pile)].segments = Append(@, retour)]
    /\ retour' = <<>>
    /\ UNCHANGED <<appel, erreur>>
    /\ HorsAppel

\* lines 155-157
Combiner ==
    /\ pile # <<>>
    /\ retour = <<>>
    /\ Len(Sommet.segments) = 4
    /\ retour' = combiner(Sommet.segments[1], Sommet.segments[2],
                          Sommet.segments[3], Sommet.segments[4])
    /\ pile' = Depiler
    /\ UNCHANGED <<appel, erreur>>
    /\ HorsAppel

NextKoch ==
    \/ CasDeBase
    \/ Subdiviser
    \/ DebordementPile
    \/ RecevoirSegment
    \/ Combiner

\* a started call keeps running: its steps are weakly fair
SpecKoch == InitKoch /\ [][NextKoch]_vars /\ WF_vars(NextKoch)

\* the outermost call has returned
Termine == pile = <<>> /\ retour # <<>>

----------------------------------------------------------------------------
(* Properties of the event handlers, checked under Spec                    *)

ZoomHandlers ==
    {"zoomer_windows", "zoomer_macos", "zoomer_in_linux", "zoomer_out_linux",
     "zoomer_clavier"}

\* C1: after any sequence of zoom, drag and depth events the zoom is within
\* [0.1, 50.0]; a zoom step whose product exceeds 50.0 leaves exactly 50.0
\* and one whose product falls below 0.1 leaves exactly 0.1.
C1_ZoomClamping ==
    /\ zoom \in ZOOM_MIN..ZOOM_MAX
    /\ dernier.nom \in ZoomHandlers =>
          /\ dernier.brut > ZOOM_MAX => zoom = ZOOM_MAX
          /\ dernier.brut < ZOOM_MIN => zoom = ZOOM_MIN

\* a zoom-out on Linux at the lower bound, during a drag, at another level
C1_Witness ==
    /\ dernier.nom = "zoomer_out_linux"
    /\ dernier.brut < ZOOM_MIN
    /\ zoom = ZOOM_MIN
    /\ dragging
    /\ niveau # NIVEAU_RECURSION

Borne(n, bas, haut) == IF n < bas THEN bas ELSE IF n > haut THEN haut ELSE n

\* C2: niveau is always an integer of [0, 7], and every changer_niveau(delta)
\* leaves clamp(previous niveau + delta, 0, 7): +1 at 7 leaves 7, -1 at 0
\* leaves 0.
C2_DepthClamping ==
    /\ [](niveau \in NIVEAU_MIN..NIVEAU_MAX)
    /\ [][dernier'.nom = "changer_niveau" =>
            niveau' = Borne(niveau + dernier'.arg[1], 0, 7)]_vars

\* changer_niveau(+1) was handled at niveau 7
C2_Witness ==
    /\ dernier.nom = "changer_niveau"
    /\ dernier.arg = <<1>>
    /\ dernier.brut = NIVEAU_MAX + 1
    /\ niveau = NIVEAU_MAX

\* C9: the pan changes only in deplacer and only while dragging is set; a
\* motion received while dragging is False leaves it unchanged; from a press
\* at (x0, y0) to the last motion at (xn, yn) before the release the pan has
\* grown by exactly (xn - x0, yn - y0).
C9_DragPan ==
    /\ [](dragging =>
            /\ pan_x - appui.pan_x = last_x - appui.x
            /\ pan_y - appui.pan_y = last_y - appui.y)
    /\ [][/\ (pan_x' # pan_x \/ pan_y' # pan_y) =>
                (dernier'.nom = "deplacer" /\ dragging /\ dragging')
          /\ (dernier'.nom = "deplacer" /\ ~dragging) =>
                (pan_x' = pan_x /\ pan_y' = pan_y)]_vars

\* a second drag, two motions long, that moved the pan on both axes
C9_Witness ==
    /\ dragging
    /\ dernier.nom = "deplacer"
    /\ appui.pan_x # 0
    /\ pan_x # appui.pan_x
    /\ pan_y # appui.pan_y
    /\ <<last_x, last_y>> # <<appui.x, appui.y>>

\* C10: between two events the polygon on the canvas is the one computed
\* from the current zoom, pan and niveau, and each handler changes only its
\* own field: the zoom handlers leave pan and niveau, deplacer leaves zoom
\* and niveau, changer_niveau leaves zoom and pan.
C10_RedrawAndFrame ==
    /\ [](/\ canvas = dessiner_flocon(zoom, pan_x, pan_y, niveau)
          /\ info_zoom = texte_zoom(zoom))
    /\ [][/\ dernier'.nom \in ZoomHandlers => UNCHANGED <<pan_x, pan_y, niveau>>
          /\ dernier'.nom = "deplacer" => UNCHANGED <<zoom, niveau>>
          /\ dernier'.nom = "changer_niveau" => UNCHANGED <<zoom, pan_x, pan_y>>]_vars

\* a level change after a zoom and a drag have moved the view
C10_Witness ==
    /\ dernier.nom = "changer_niveau"
    /\ niveau # NIVEAU_RECURSION
    /\ zoom # ZOOM_INITIAL
    /\ pan_x # 0
    /\ pan_y # 0

----------------------------------------------------------------------------
(* Properties of the outline, checked under SpecDessin                     *)

\* the k-th point of the coordinate list
PointDuPolygone(k) == <<polygone[2 * k - 1], polygone[2 * k]>>
NbPoints == Len(polygone) \div 2

\* C6: at niveau 0 the polygon is exactly the three vertices, once each, in
\* the order apex (Cx, Cy - h/2), left (Cx - size/2, Cy + h/2), right
\* (Cx + size/2, Cy + h/2); the first is not repeated at the end.
C6_TriangleAtDepth0 ==
    (polygone # <<>> /\ niveau = 0) =>
        LET size   == TAILLE_FLOCON * zoom * (Unite \div ZoomScale)
            Cx     == (canvas_width \div 2 + pan_x) * Unite
            Cy     == (canvas_height \div 2 + pan_y) * Unite
            demi_h == size \div 4
        IN  polygone = << <<Cx, 0>>, <<Cy, 0 - demi_h>>,
                          <<Cx - size \div 2, 0>>, <<Cy, demi_h>>,
                          <<Cx + size \div 2, 0>>, <<Cy, demi_h>> >>

C6_Witness ==
    /\ polygone # <<>>
    /\ niveau = 0
    /\ zoom = ZOOM_MAX
    /\ pan_x < 0
    /\ pan_y > 0

\* C7, as claimed: the last curve keeps its final point, 3 * 4^d + 1 points.
C7_Original ==
    polygone # <<>> => NbPoints = 3 * 4^niveau + 1

\* C7, amended: each of the three curves loses its final point, so the
\* outline has 3 * 4^d points: the k-th side starts at the k-th vertex and
\* the outline does not end on its first point.
C7_OutlineSize ==
    polygone # <<>> =>
        /\ Len(polygone) = 2 * NbPoints
        /\ NbPoints = 3 * 4^niveau
        /\ \A k \in 1..3 :
              PointDuPolygone((k - 1) * 4^niveau + 1) = canvas.triangle[k]
        /\ PointDuPolygone(NbPoints) # PointDuPolygone(1)

C7_Witness ==
    /\ polygone # <<>>
    /\ niveau = NIVEAU_MAX - 1
    /\ zoom = ZOOM_MIN

----------------------------------------------------------------------------
(* Properties of calculer_points_koch, checked under SpecKoch              *)

Depart == <<appel.x1, appel.y1>>
Arrivee == <<appel.x2, appel.y2>>

\* C3: for d >= 0 and start # end the call returns, with exactly 4^d + 1
\* points, the first start and the last end; at d = 0 it is [start, end].
C3_PointCount ==
    /\ [](  (Termine /\ appel.niveau >= 0 /\ Depart # Arrivee) =>
              /\ erreur = ""
              /\ Len(retour) = 4^appel.niveau + 1
              /\ retour[1] = Depart
              /\ retour[Len(retour)] = Arrivee
              /\ appel.niveau = 0 => retour = <<Depart, Arrivee>>)
    /\ (appel.niveau >= 0 /\ Depart # Arrivee) ~> Termine

C3_Witness ==
    /\ Termine
    /\ appel.niveau = MaxNiveauAppel
    /\ Depart # Arrivee
    /\ appel.y1 # appel.y2

\* C4, as claimed: on a zero-length segment the call returns [P, P] at any
\* depth d >= 0.
C4_ZeroLength ==
    (Termine /\ appel.niveau >= 0 /\ Depart = Arrivee) =>
        retour = <<Depart, Arrivee>>

\* C5, as claimed: a call with d < 0 fails with an invalid argument before
\* any recursive call is entered.
C5_NegativeDepth ==
    appel.niveau < 0 =>
        /\ Len(pile) <= 1
        /\ erreur \in {"", "ValueError"}

\* C8: for d >= 1 the result is the depth d-1 curves on (start, p1),
\* (p1, p2), (p2, p3), (p3, end) in this order, the first three without their
\* last point; the points at 0, 4^(d-1), 2*4^(d-1), 3*4^(d-1), 4^d are start,
\* p1, p2, p3, end, and on a segment of positive length a splice point
\* differs from both its neighbours.
C8_RecursiveSplice ==
    (Termine /\ appel.niveau >= 1) =>
        LET d == appel.niveau
            j == jalons(appel)
            q == 4^(d - 1)
            sous(k) == calculer_points_koch(j[k][1], j[k][2],
                                            j[k + 1][1], j[k + 1][2], d - 1)
        IN  /\ retour = ButLast(sous(1)) \o ButLast(sous(2))
                            \o ButLast(sous(3)) \o sous(4)
            /\ \A k \in 0..4 : retour[k * q + 1] = j[k + 1]
            /\ Depart # Arrivee =>
                  \A k \in 1..3 : /\ retour[k * q] # retour[k * q + 1]
                                  /\ retour[k * q + 2] # retour[k * q + 1]

C8_Witness ==
    /\ Termine
    /\ appel.niveau = MaxNiveauAppel
    /\ Depart # Arrivee
    /\ appel.x1 # appel.x2

=============================================================================
